---- MODULE Spec2Model ----
(***************************************************************************)
(* Device registry of mikrotik-config: DeviceService over DeviceRepository *)
(* (a YAML file) and MikrotikService (six REST reads per poll).            *)
(*                                                                         *)
(* Scheduling.  Every request handler is a coroutine on one asyncio event  *)
(* loop.  Control returns to the loop only where a coroutine awaits a      *)
(* future that is not done: the six `self._client.get` calls and the       *)
(* `self._client.aclose()` of MikrotikService.  The repository methods are *)
(* `async def`, but their bodies hold no such await: the asyncio.Lock they *)
(* take belongs to a DeviceRepository built per request, so it is never    *)
(* contended and acquire() returns at once, and the file is read and       *)
(* written with blocking open()/yaml calls.  Hence everything a handler    *)
(* does between two network awaits is one step of the model.               *)
(***************************************************************************)
EXTENDS Integers, Sequences, FiniteSets, TLC

VARIABLES
    devices_file,   \* devices.yaml: None (no file) or Some([devices |-> id :> dict])
    uuids,          \* number of uuid4() values drawn so far
    now,            \* the wall clock read by datetime.now()
    pc,             \* per request: "idle", "fetch", "closing", "done"
    op,             \* per request: the service call and its arguments
    device,         \* per request: the local `device` of the handler
    got,            \* per request: results of the endpoints fetched so far
    exc,            \* per request: the exception in flight, None or Some(type)
    client,         \* per request: MikrotikService._client, "none"/"open"/"closed"
    result,         \* per request: what the call returned or raised
    log,            \* history, per request: <<endpoint, outcome kind, body>> of each GET
    saves,          \* history, per request: number of _save_devices calls
    loads,          \* history, per request: number of _load_devices calls
    locked,         \* per request: the _lock of its DeviceRepository is held
    committed,      \* history: n-th create :> [id, data last committed], deletes removed
    raced,          \* history, per request: another call was in flight at commit
    submitted,      \* history: number of service calls made so far
    vParts,         \* the parts the validator's input is joined from
    vIn,            \* input of the validator under test
    vOut            \* its outcome: "pending", "accepted", "ValidationError"

vars == <<devices_file, uuids, now, pc, op, device, got, exc, client, result,
          log, saves, loads, locked, committed, raced, submitted, vParts, vIn,
          vOut>>

(***************************************************************************)
(* Bounds of the model                                                     *)
(***************************************************************************)
MaxDevices == 2     \* uuid4() values drawn (records ever created)
MaxClock == 1       \* last value of the wall clock
MaxSubmitted == 3   \* service calls made in one behaviour
MaxParts == 5       \* dot-separated parts of a validator input

Reqs == {"r1", "r2"}    \* requests that may be in flight together

(***************************************************************************)
(* Python values                                                           *)
(***************************************************************************)
None == <<>>
Some(x) == <<x>>

\* A parsed JSON body: a mapping (v = its keys), an array (v = its elements)
\* or anything else (number, string, null).
Dict(keys) == [t |-> "dict", v |-> keys]
List(elems) == [t |-> "list", v |-> elems]
Scalar == [t |-> "scalar", v |-> <<>>]

EmptyDict == Dict(<<>>)
EmptyList == List(<<>>)
isdict(x) == x.t = "dict"
islist(x) == x.t = "list"
len(x) == Len(x.v)
bool(x) == len(x) > 0

(***************************************************************************)
(* app/models/device.py                                                    *)
(***************************************************************************)
MinPort == 1
MaxPort == 65535

AsciiDigits == <<"0", "1", "2", "3", "4", "5", "6", "7", "8", "9">>
\* "sup2" is U+00B2: str.isdigit() accepts it, int() does not.
DigitChars == {AsciiDigits[i] : i \in 1..10} \cup {"sup2"}

DigitValue(c) == (CHOOSE i \in 1..10 : AsciiDigits[i] = c) - 1

RECURSIVE split(_, _)
\* v.split(sep): the parts of v between the separators, at least one part.
split(v, sep) ==
    IF \A i \in 1..Len(v) : v[i] # sep
    THEN <<v>>
    ELSE LET k == CHOOSE i \in 1..Len(v) :
                      v[i] = sep /\ \A j \in 1..(i - 1) : v[j] # sep
         IN  <<SubSeq(v, 1, k - 1)>> \o split(SubSeq(v, k + 1, Len(v)), sep)

isdigit(part) == Len(part) > 0 /\ \A i \in 1..Len(part) : part[i] \in DigitChars

\* int(part) raises ValueError on a character that is no decimal digit.
int_raises(part) ==
    \E i \in 1..Len(part) : part[i] \notin (DigitChars \ {"sup2"})

RECURSIVE int(_)
int(part) ==
    IF Len(part) = 0 THEN 0
    ELSE 10 * int(SubSeq(part, 1, Len(part) - 1)) + DigitValue(part[Len(part)])

\* Mutant of BadPart: the upper limit of an octet is off by one.
BadPart_upto256(part) ==
    \/ ~isdigit(part)
    \/ int_raises(part)
    \/ ~(0 <= int(part) /\ int(part) <= 256)

\* `not part.isdigit() or not 0 <= int(part) <= 255`, ValueError included.
BadPart(part) ==
    \/ ~isdigit(part)
    \/ int_raises(part)
    \/ ~(0 <= int(part) /\ int(part) <= 255)

\* TRUE when the field validator accepts v, FALSE when it raises.
validate_ip_address(v) ==
    LET parts == split(v, ".")
    IN  /\ Len(parts) = 4
        /\ \A i \in 1..Len(parts) : ~BadPart(parts[i])

\* Mutant of DeviceCreate: the port is not constrained.
DeviceCreate_anyport(ip_address, port) == validate_ip_address(ip_address)

\* DeviceCreate(...): the IP validator and the port constraint ge=1, le=65535.
DeviceCreate(ip_address, port) ==
    /\ validate_ip_address(ip_address)
    /\ MinPort <= port /\ port <= MaxPort

DeviceResponse(d) ==
    [id |-> d.id, ip_address |-> d.ip_address, port |-> d.port,
     created_at |-> d.created_at, last_accessed |-> d.last_accessed,
     data |-> d.data]

(***************************************************************************)
(* app/services/mikrotik_service.py                                        *)
(***************************************************************************)
Endpoints == <<"system/resource", "interface", "system/identity",
               "system/routerboard", "system/clock", "system/license">>
Keys == <<"system", "interfaces", "identity", "routerboard", "clock", "license">>

\* __aenter__: a fresh httpx.AsyncClient is bound to self._client.
aenter(c) == "open"

\* Mutant of aexit: the client is closed only when the block ended normally.
aexit_on_success(c, exc_type) == IF c = "open" /\ exc_type = <<>> THEN "closed" ELSE c

\* __aexit__, whatever exception left the block: aclose() and the reference
\* dropped if a client is bound, nothing otherwise.
aexit(c, exc_type) == IF c = "open" THEN "closed" ELSE c

\* What one GET can produce: a 2xx response with a JSON body, a non-2xx
\* response (HTTPStatusError), no response (RequestError), or anything else
\* (a 2xx body that is not JSON).
FailureKinds == {"http_status", "transport", "unexpected"}
Ok(body) == [kind |-> "ok", body |-> body]
Failure(kind) == [kind |-> kind, body |-> Scalar]

\* A call's outcome: [raised |-> exception type or "", value |-> result].
Return(x) == [raised |-> "", value |-> x]
Raise(e) == [raised |-> e, value |-> EmptyDict]

fetch_endpoint(out) ==
    IF out.kind = "ok"
    THEN LET data == out.body
         IN  IF islist(data) /\ len(data) > 0
             THEN Return(IF isdict(data.v[1]) THEN data.v[1] ELSE data)
             ELSE Return(IF isdict(data) THEN data ELSE EmptyDict)
    ELSE Return(EmptyDict)

\* Mutant of get_system_info: a failure is swallowed as in _fetch_endpoint.
get_system_info_lenient(out) ==
    IF out.kind = "ok"
    THEN LET data == out.body
         IN  IF islist(data) /\ len(data) > 0
             THEN Return(IF isdict(data.v[1]) THEN data.v[1] ELSE EmptyDict)
             ELSE Return(EmptyDict)
    ELSE Return(EmptyDict)

get_system_info(out) ==
    CASE out.kind = "ok" ->
            LET data == out.body
            IN  IF islist(data) /\ len(data) > 0
                THEN Return(IF isdict(data.v[1]) THEN data.v[1] ELSE EmptyDict)
                ELSE Return(EmptyDict)
      [] out.kind = "http_status" -> Raise("ConnectionError")
      [] out.kind = "transport" -> Raise("ConnectionError")
      [] OTHER -> Raise("Exception")

\* Mutant of get_interfaces: a failure is swallowed and [] returned.
get_interfaces_lenient(out) ==
    IF out.kind = "ok"
    THEN LET data == out.body
         IN  Return(IF islist(data) THEN data ELSE EmptyList)
    ELSE Return(EmptyList)

get_interfaces(out) ==
    CASE out.kind = "ok" ->
            LET data == out.body
            IN  Return(IF islist(data) THEN data ELSE EmptyList)
      [] out.kind = "http_status" -> Raise("ConnectionError")
      [] out.kind = "transport" -> Raise("ConnectionError")
      [] OTHER -> Raise("Exception")

\* The k-th call of get_all_data, applied to the outcome of its GET.
get_endpoint(k, out) ==
    CASE k = 1 -> get_system_info(out)
      [] k = 2 -> get_interfaces(out)
      [] OTHER -> fetch_endpoint(out)

\* Mutant of get_all_data: only the keys that have data are returned.
get_all_data_partial(results) ==
    [k \in {Keys[i] : i \in {j \in 1..6 : bool(results[j])}} |->
        results[CHOOSE i \in 1..6 : Keys[i] = k]]

\* The mapping get_all_data returns once all six calls have returned.
get_all_data(results) ==
    [system |-> results[1], interfaces |-> results[2], identity |-> results[3],
     routerboard |-> results[4], clock |-> results[5], license |-> results[6]]

(***************************************************************************)
(* app/repositories/device_repository.py                                   *)
(***************************************************************************)
EmptyMap == <<>>
put(m, k, v) == [x \in DOMAIN m \cup {k} |-> IF x = k THEN v ELSE m[x]]
remove(m, k) == [x \in DOMAIN m \ {k} |-> m[x]]

\* str(uuid4()): the n-th value drawn differs from every value drawn before.
UuidNames == <<"d1", "d2", "d3", "d4", "d5", "d6">>
\* Mutant of uuid4: the id is drawn once, as a default evaluated at import.
uuid4_once(n) == UuidNames[1]

uuid4(n) == UuidNames[n]

\* datetime.isoformat() and datetime.fromisoformat() on the clock's values.
isoformat(t) == <<"iso", t>>
fromisoformat(s) == s[2]

\* The 'devices' mapping of the YAML document; {} when there is no file.
load_devices(file) == IF file = None THEN EmptyMap ELSE file[1].devices
save_devices(devices) == Some([devices |-> devices])

Device(id, ip_address, username, port, created_at) ==
    [id |-> id, ip_address |-> ip_address, username |-> username, port |-> port,
     created_at |-> created_at, last_accessed |-> None, data |-> None]

device_to_dict(d) ==
    [id |-> d.id, ip_address |-> d.ip_address, username |-> d.username,
     port |-> d.port, created_at |-> isoformat(d.created_at),
     last_accessed |-> IF d.last_accessed # None
                       THEN isoformat(d.last_accessed[1]) ELSE None,
     data |-> d.data]

dict_to_device(data) ==
    [id |-> data.id, ip_address |-> data.ip_address, username |-> data.username,
     port |-> data.port, created_at |-> fromisoformat(data.created_at),
     last_accessed |-> IF data.last_accessed # None
                       THEN Some(fromisoformat(data.last_accessed)) ELSE None,
     data |-> data.data]

\* Mutant of async_with_lock: the lock is acquired and not released.
async_with_lock_held(l) == TRUE

\* `async with self._lock:` around a method body that does not await: the
\* lock is acquired at entry and released at exit, whatever the body did.
async_with_lock(l) == FALSE

\* Each method yields [file |-> the file afterwards, ret |-> the value
\* returned, saved |-> the number of _save_devices calls it made, loaded |->
\* the number of _load_devices calls it made].
create(file, device_id, ip_address, username, port, t) ==
    LET devices_dict == load_devices(file)
        d == Device(device_id, ip_address, username, port, t)
    IN  [file |-> save_devices(put(devices_dict, device_id, device_to_dict(d))),
         ret |-> Some(d), saved |-> 1, loaded |-> 1]

get_by_id(file, device_id) ==
    LET devices_dict == load_devices(file)
    IN  IF device_id \notin DOMAIN devices_dict
        THEN [file |-> file, ret |-> None, saved |-> 0, loaded |-> 1]
        ELSE [file |-> file, ret |-> Some(dict_to_device(devices_dict[device_id])),
              saved |-> 0, loaded |-> 1]

get_all(file) ==
    LET devices_dict == load_devices(file)
    IN  [file |-> file,
         ret |-> {dict_to_device(devices_dict[i]) : i \in DOMAIN devices_dict},
         saved |-> 0, loaded |-> 1]

\* Mutant of update_data: only the record updated is written back.
update_data_alone(file, device_id, data, t) ==
    LET devices_dict == load_devices(file)
    IN  IF device_id \notin DOMAIN devices_dict
        THEN [file |-> file, ret |-> None, saved |-> 0, loaded |-> 1]
        ELSE LET device_data == [devices_dict[device_id] EXCEPT
                                     !.data = Some(data),
                                     !.last_accessed = isoformat(t)]
             IN  [file |-> save_devices(put(EmptyMap, device_id, device_data)),
                  ret |-> Some(dict_to_device(device_data)), saved |-> 1, loaded |-> 1]

\* Mutant of update_data: the update stamps created_at as well.
update_data_touch(file, device_id, data, t) ==
    LET devices_dict == load_devices(file)
    IN  IF device_id \notin DOMAIN devices_dict
        THEN [file |-> file, ret |-> None, saved |-> 0, loaded |-> 1]
        ELSE LET device_data == [devices_dict[device_id] EXCEPT
                                     !.data = Some(data),
                                     !.created_at = isoformat(t),
                                     !.last_accessed = isoformat(t)]
             IN  [file |-> save_devices(put(devices_dict, device_id, device_data)),
                  ret |-> Some(dict_to_device(device_data)), saved |-> 1, loaded |-> 1]

\* Mutant of update_data: the changed mapping is not written back.
update_data_unsaved(file, device_id, data, t) ==
    LET devices_dict == load_devices(file)
    IN  IF device_id \notin DOMAIN devices_dict
        THEN [file |-> file, ret |-> None, saved |-> 0, loaded |-> 1]
        ELSE LET device_data == [devices_dict[device_id] EXCEPT
                                     !.data = Some(data),
                                     !.last_accessed = isoformat(t)]
             IN  [file |-> file, ret |-> Some(dict_to_device(device_data)),
                  saved |-> 0, loaded |-> 1]

\* Mutant of update_data: a missing id is inserted.
update_data_upsert(file, device_id, data, t) ==
    LET devices_dict == load_devices(file)
        device_data ==
            IF device_id \in DOMAIN devices_dict
            THEN [devices_dict[device_id] EXCEPT !.data = Some(data),
                                                 !.last_accessed = isoformat(t)]
            ELSE [id |-> device_id, ip_address |-> <<>>, username |-> "",
                  port |-> 0, created_at |-> isoformat(t),
                  last_accessed |-> isoformat(t), data |-> Some(data)]
    IN  [file |-> save_devices(put(devices_dict, device_id, device_data)),
         ret |-> Some(dict_to_device(device_data)), saved |-> 1, loaded |-> 1]

\* Mutant of update_data: data is stored without the time stamp.
update_data_unstamped(file, device_id, data, t) ==
    LET devices_dict == load_devices(file)
    IN  IF device_id \notin DOMAIN devices_dict
        THEN [file |-> file, ret |-> None, saved |-> 0, loaded |-> 1]
        ELSE LET device_data == [devices_dict[device_id] EXCEPT
                                     !.data = Some(data)]
             IN  [file |-> save_devices(put(devices_dict, device_id, device_data)),
                  ret |-> Some(dict_to_device(device_data)), saved |-> 1, loaded |-> 1]

update_data(file, device_id, data, t) ==
    LET devices_dict == load_devices(file)
    IN  IF device_id \notin DOMAIN devices_dict
        THEN [file |-> file, ret |-> None, saved |-> 0, loaded |-> 1]
        ELSE LET device_data == [devices_dict[device_id] EXCEPT
                                     !.data = Some(data),
                                     !.last_accessed = isoformat(t)]
             IN  [file |-> save_devices(put(devices_dict, device_id, device_data)),
                  ret |-> Some(dict_to_device(device_data)), saved |-> 1, loaded |-> 1]

\* Mutant of delete: the id is popped without the membership test.
delete_always(file, device_id) ==
    LET devices_dict == load_devices(file)
    IN  [file |-> save_devices(remove(devices_dict, device_id)),
         ret |-> TRUE, saved |-> 1, loaded |-> 1]

delete(file, device_id) ==
    LET devices_dict == load_devices(file)
    IN  IF device_id \notin DOMAIN devices_dict
        THEN [file |-> file, ret |-> FALSE, saved |-> 0, loaded |-> 1]
        ELSE [file |-> save_devices(remove(devices_dict, device_id)),
              ret |-> TRUE, saved |-> 1, loaded |-> 1]

(***************************************************************************)
(* app/services/device_service.py                                          *)
(***************************************************************************)
\* settings.mikrotik_username, read from the environment at start-up.
DefaultUsername == "admin"

\* Python's `x or y` on strings.
or_else(x, y) == IF x # "" THEN x ELSE y

NoOp == [name |-> "none", id |-> "", ip_address |-> <<>>, username |-> "",
         password |-> "", port |-> 0]
NoResult == [raised |-> "pending", value |-> None]

\* Mutant of create_device: a missing username falls back to the password.
create_device_password(file, device_data, mikrotik_data, n, t1, t2) ==
    LET username == or_else(device_data.username, device_data.password)
        c == create(file, uuid4(n + 1), device_data.ip_address, username,
                    device_data.port, t1)
        dev == c.ret[1]
        u == update_data(c.file, dev.id, mikrotik_data, t2)
        g == get_by_id(u.file, dev.id)
    IN  [file |-> g.file, out |-> Return(Some(DeviceResponse(g.ret[1]))),
         device |-> c.ret, saved |-> c.saved + u.saved,
         loaded |-> c.loaded + u.loaded + g.loaded]

\* create_device after get_all_data has returned mikrotik_data: create,
\* update_data, get_by_id, and the `except` clause of the handler.  n is the
\* number of uuid4() values drawn before, t1 and t2 the two clock readings.
create_device(file, device_data, mikrotik_data, n, t1, t2) ==
    LET username == or_else(device_data.username, DefaultUsername)
        c == create(file, uuid4(n + 1), device_data.ip_address, username,
                    device_data.port, t1)
        dev == c.ret[1]
        u == update_data(c.file, dev.id, mikrotik_data, t2)
        g == get_by_id(u.file, dev.id)
    IN  IF g.ret = None
        THEN LET x == delete(g.file, dev.id)
             IN  [file |-> x.file, out |-> Raise("RuntimeError"),
                  device |-> c.ret, saved |-> c.saved + u.saved + x.saved,
                  loaded |-> c.loaded + u.loaded + g.loaded + x.loaded]
        ELSE [file |-> g.file, out |-> Return(Some(DeviceResponse(g.ret[1]))),
              device |-> c.ret, saved |-> c.saved + u.saved,
              loaded |-> c.loaded + u.loaded + g.loaded]

\* refresh_device_data after get_all_data has returned mikrotik_data.
refresh_device_data(file, device_id, mikrotik_data, t) ==
    LET u == update_data(file, device_id, mikrotik_data, t)
        g == get_by_id(u.file, device_id)
    IN  [file |-> g.file,
         out |-> IF g.ret = None THEN Return(None)
                 ELSE Return(Some(DeviceResponse(g.ret[1]))),
         saved |-> u.saved, loaded |-> u.loaded + g.loaded]

\* The `except Exception` clause of create_device when get_all_data raised:
\* `device` is still None, nothing is deleted, the exception is re-raised.
create_device_except(file, dev, e) ==
    IF dev # None
    THEN LET x == delete(file, dev[1].id)
         IN  [file |-> x.file, out |-> Raise(e), saved |-> x.saved,
              loaded |-> x.loaded]
    ELSE [file |-> file, out |-> Raise(e), saved |-> 0, loaded |-> 0]

\* Mutant of refresh_device_data_raised: the compensation of create_device
\* is applied to a refresh.
refresh_device_data_compensate(file, dev, e) == create_device_except(file, dev, e)

\* refresh_device_data when get_all_data raised: there is no handler, the
\* exception leaves the `async with` block and the call.
refresh_device_data_raised(file, dev, e) ==
    [file |-> file, out |-> Raise(e), saved |-> 0, loaded |-> 0]

(***************************************************************************)
(* Inputs                                                                  *)
(***************************************************************************)
Ip10_0_0_5 == <<"1", "0", ".", "0", ".", "0", ".", "5">>
Ip999_1_1_1 == <<"9", "9", "9", ".", "1", ".", "1", ".", "1">>
IpAddresses == {Ip10_0_0_5, Ip999_1_1_1}
Usernames == {"", "ops"}
DefaultOnly == {""}
RefreshUsernames == {"ops"}
Passwords == {"pw"}
Ports == {80, 0}
DeviceIds == {UuidNames[i] : i \in 1..MaxDevices}

SomeDict == Dict(<<"k">>)
\* Bodies a device may answer with: [{..}], {..}, [], [1], {}, 1.
Bodies == {List(<<SomeDict>>), SomeDict, EmptyList, List(<<Scalar>>),
           EmptyDict, Scalar}
Failures == {Failure(k) : k \in FailureKinds}
\* Every kind of answer, for the aggregation on its own.
AllOutcomes == {Ok(b) : b \in Bodies} \cup Failures
\* The answers of a healthy or failing device, for the registry under load.
\* The answers of a healthy or failing device, for the registry under load:
\* the host may be unreachable, or answer the second or the last call with
\* an error status.
PlainOutcomes(k) ==
    {Ok(List(<<SomeDict>>))}
        \cup (IF k = 1 THEN {Failure("transport")} ELSE {})
        \cup (IF k \in {2, 6} THEN {Failure("http_status")} ELSE {})
\* The answers for one call on its own: every answer on the two required
\* endpoints and on system/identity, one failure on each other endpoint.
SoloOutcomes(k) ==
    CASE k \in {1, 2, 3} -> AllOutcomes
      [] k \in {4, 5} -> {Ok(List(<<SomeDict>>)), Failure("transport")}
      [] OTHER -> {Ok(List(<<SomeDict>>)), Failure("unexpected")}

InFlight(r) == pc[r] \in {"fetch", "closing"}
Racing(r) == \E q \in Reqs \ {r} : InFlight(q)

(***************************************************************************)
(* State machine                                                           *)
(***************************************************************************)
InitRegistry ==
    /\ devices_file = None
    /\ uuids = 0
    /\ now = 0
    /\ pc = [r \in Reqs |-> "idle"]
    /\ op = [r \in Reqs |-> NoOp]
    /\ device = [r \in Reqs |-> None]
    /\ got = [r \in Reqs |-> <<>>]
    /\ exc = [r \in Reqs |-> None]
    /\ client = [r \in Reqs |-> "none"]
    /\ result = [r \in Reqs |-> NoResult]
    /\ log = [r \in Reqs |-> <<>>]
    /\ saves = [r \in Reqs |-> 0]
    /\ loads = [r \in Reqs |-> 0]
    /\ locked = [r \in Reqs |-> FALSE]
    /\ committed = EmptyMap
    /\ raced = [r \in Reqs |-> FALSE]
    /\ submitted = 0

Init ==
    /\ InitRegistry
    /\ vParts = <<>>
    /\ vIn = <<>>
    /\ vOut = "idle"

\* A call that ends without ever awaiting the network.
Immediate(r, o, file, out, saved, loaded) ==
    /\ pc' = [pc EXCEPT ![r] = "done"]
    /\ op' = [op EXCEPT ![r] = o]
    /\ result' = [result EXCEPT ![r] = out]
    /\ devices_file' = file
    /\ saves' = [saves EXCEPT ![r] = saved]
    /\ loads' = [loads EXCEPT ![r] = loaded]
    /\ locked' = [locked EXCEPT ![r] = IF loaded > 0 THEN async_with_lock(@) ELSE @]
    /\ raced' = [raced EXCEPT ![r] = Racing(r)]
    /\ submitted' = submitted + 1
    /\ UNCHANGED <<uuids, now, device, got, exc, client, log, vParts, vIn, vOut>>

\* `async with MikrotikService()` entered and the first GET of get_all_data
\* awaited.
StartFetch(r, o, dev, loaded) ==
    /\ pc' = [pc EXCEPT ![r] = "fetch"]
    /\ op' = [op EXCEPT ![r] = o]
    /\ device' = [device EXCEPT ![r] = dev]
    /\ client' = [client EXCEPT ![r] = aenter(@)]
    /\ loads' = [loads EXCEPT ![r] = loaded]
    /\ locked' = [locked EXCEPT ![r] = IF loaded > 0 THEN async_with_lock(@) ELSE @]
    /\ submitted' = submitted + 1
    /\ UNCHANGED <<devices_file, uuids, now, got, exc, result, log, saves,
                   committed, raced, vParts, vIn, vOut>>

\* Mutant of SubmitRegister: the record is created before the session is
\* opened.
SubmitRegister_create_first(r, ip_address, username, password, port) ==
    LET o == [NoOp EXCEPT !.name = "register", !.ip_address = ip_address,
                          !.username = username, !.password = password,
                          !.port = port]
        c == create(devices_file, uuid4(uuids + 1), ip_address,
                    or_else(username, DefaultUsername), port, now)
    IN  /\ pc[r] = "idle"
        /\ submitted < MaxSubmitted
        /\ uuids + Cardinality({q \in Reqs : InFlight(q) /\ op[q].name = "register"})
               < MaxDevices
        /\ IF DeviceCreate(ip_address, port)
           THEN /\ pc' = [pc EXCEPT ![r] = "fetch"]
                /\ op' = [op EXCEPT ![r] = o]
                /\ device' = [device EXCEPT ![r] = c.ret]
                /\ client' = [client EXCEPT ![r] = aenter(@)]
                /\ devices_file' = c.file
                /\ uuids' = uuids + 1
                /\ saves' = [saves EXCEPT ![r] = c.saved]
                /\ loads' = [loads EXCEPT ![r] = c.loaded]
                /\ locked' = [locked EXCEPT ![r] = async_with_lock(@)]
                /\ submitted' = submitted + 1
                /\ UNCHANGED <<now, got, exc, result, log, committed, raced,
                               vParts, vIn, vOut>>
           ELSE /\ Immediate(r, o, devices_file, Raise("ValidationError"), 0, 0)
                /\ UNCHANGED committed

\* POST /devices: DeviceCreate is built (and validated) by the controller,
\* then DeviceService.create_device runs up to its first GET.
SubmitRegister(r, ip_address, username, password, port) ==
    LET o == [NoOp EXCEPT !.name = "register", !.ip_address = ip_address,
                          !.username = username, !.password = password,
                          !.port = port]
    IN  /\ pc[r] = "idle"
        /\ submitted < MaxSubmitted
        /\ uuids + Cardinality({q \in Reqs : InFlight(q) /\ op[q].name = "register"})
               < MaxDevices
        /\ IF DeviceCreate(ip_address, port)
           THEN StartFetch(r, o, None, 0)
           ELSE /\ Immediate(r, o, devices_file, Raise("ValidationError"), 0, 0)
                /\ UNCHANGED committed

\* Mutant of SubmitRefresh: the `if not device` test is missing.
SubmitRefresh_unchecked(r, device_id, username, password) ==
    LET o == [NoOp EXCEPT !.name = "refresh", !.id = device_id,
                          !.username = username, !.password = password]
        g == get_by_id(devices_file, device_id)
    IN  /\ pc[r] = "idle"
        /\ submitted < MaxSubmitted
        /\ StartFetch(r, o, g.ret, g.loaded)

\* DeviceService.refresh_device_data up to its first GET.
SubmitRefresh(r, device_id, username, password) ==
    LET o == [NoOp EXCEPT !.name = "refresh", !.id = device_id,
                          !.username = username, !.password = password]
        g == get_by_id(devices_file, device_id)
    IN  /\ pc[r] = "idle"
        /\ submitted < MaxSubmitted
        /\ IF g.ret = None
           THEN /\ Immediate(r, o, g.file, Return(None), g.saved, g.loaded)
                /\ UNCHANGED committed
           ELSE StartFetch(r, o, g.ret, g.loaded)

\* DeviceService.get_device
SubmitGet(r, device_id) ==
    LET g == get_by_id(devices_file, device_id)
    IN  /\ pc[r] = "idle"
        /\ submitted < MaxSubmitted
        /\ Immediate(r, [NoOp EXCEPT !.name = "get", !.id = device_id], g.file,
                     Return(IF g.ret = None THEN None
                            ELSE Some(DeviceResponse(g.ret[1]))),
                     g.saved, g.loaded)
        /\ UNCHANGED committed

\* DeviceService.get_all_devices
SubmitList(r) ==
    LET g == get_all(devices_file)
    IN  /\ pc[r] = "idle"
        /\ submitted < MaxSubmitted
        /\ Immediate(r, [NoOp EXCEPT !.name = "list"], g.file,
                     Return({DeviceResponse(d) : d \in g.ret}), g.saved, g.loaded)
        /\ UNCHANGED committed

\* DeviceService.delete_device
SubmitDelete(r, device_id) ==
    LET x == delete(devices_file, device_id)
    IN  /\ pc[r] = "idle"
        /\ submitted < MaxSubmitted
        /\ Immediate(r, [NoOp EXCEPT !.name = "delete", !.id = device_id], x.file,
                     Return(x.ret), x.saved, x.loaded)
        /\ committed' = [n \in {m \in DOMAIN committed :
                                    committed[m].id # device_id} |-> committed[n]]

\* Mutant of Reply: a GET that failed is issued again.
Reply_retry(r, out) ==
    LET k == Len(got[r]) + 1
        res == get_endpoint(k, out)
    IN  /\ pc[r] = "fetch"
        /\ log' = [log EXCEPT ![r] = Append(@, <<Endpoints[k], out.kind, out.body>>)]
        /\ IF out.kind # "ok"
           THEN UNCHANGED <<exc, pc, got>>
           ELSE /\ got' = [got EXCEPT ![r] = Append(@, res.value)]
                /\ pc' = [pc EXCEPT ![r] = IF k = Len(Endpoints) THEN "closing"
                                           ELSE "fetch"]
                /\ exc' = exc
        /\ UNCHANGED <<devices_file, uuids, now, op, device, client, result, saves,
                       loads, locked, committed, raced, submitted, vParts, vIn,
                       vOut>>

\* Mutant of Reply: a GET that gets no response is awaited for ever.
Reply_no_timeout(r, out) ==
    LET k == Len(got[r]) + 1
        res == get_endpoint(k, out)
    IN  /\ pc[r] = "fetch"
        /\ log' = [log EXCEPT ![r] = Append(@, <<Endpoints[k], out.kind, out.body>>)]
        /\ IF out.kind = "transport"
           THEN /\ pc' = [pc EXCEPT ![r] = "hung"]
                /\ UNCHANGED <<exc, got>>
           ELSE IF res.raised # ""
           THEN /\ exc' = [exc EXCEPT ![r] = Some(res.raised)]
                /\ pc' = [pc EXCEPT ![r] = "closing"]
                /\ got' = got
           ELSE /\ got' = [got EXCEPT ![r] = Append(@, res.value)]
                /\ pc' = [pc EXCEPT ![r] = IF k = Len(Endpoints) THEN "closing"
                                           ELSE "fetch"]
                /\ exc' = exc
        /\ UNCHANGED <<devices_file, uuids, now, op, device, client, result, saves,
                       loads, locked, committed, raced, submitted, vParts, vIn,
                       vOut>>

\* The GET awaited by request r completes with outcome `out`; the handler
\* runs on to its next await: the next GET, or aclose() in __aexit__.
Reply(r, out) ==
    LET k == Len(got[r]) + 1
        res == get_endpoint(k, out)
    IN  /\ pc[r] = "fetch"
        /\ log' = [log EXCEPT ![r] = Append(@, <<Endpoints[k], out.kind, out.body>>)]
        /\ IF res.raised # ""
           THEN /\ exc' = [exc EXCEPT ![r] = Some(res.raised)]
                /\ pc' = [pc EXCEPT ![r] = "closing"]
                /\ got' = got
           ELSE /\ got' = [got EXCEPT ![r] = Append(@, res.value)]
                /\ pc' = [pc EXCEPT ![r] = IF k = Len(Endpoints) THEN "closing"
                                           ELSE "fetch"]
                /\ exc' = exc
        /\ UNCHANGED <<devices_file, uuids, now, op, device, client, result, saves,
                       loads, locked, committed, raced, submitted, vParts, vIn,
                       vOut>>

\* aclose() completes; the handler runs to its end.  d1 and d2 are the time
\* that passes up to the first and between the two clock readings.
Closed(r, d1, d2) ==
    /\ pc[r] = "closing"
    /\ now + d1 + d2 <= MaxClock
    /\ LET t1 == now + d1
           t2 == t1 + d2
           fin == CASE exc[r] # None /\ op[r].name = "register" ->
                         create_device_except(devices_file, device[r], exc[r][1])
                    [] exc[r] # None ->
                         refresh_device_data_raised(devices_file, device[r],
                                                    exc[r][1])
                    [] op[r].name = "register" ->
                         create_device(devices_file, op[r], get_all_data(got[r]),
                                       uuids, t1, t2)
                    [] OTHER ->
                         refresh_device_data(devices_file, op[r].id,
                                             get_all_data(got[r]), t2)
           created == exc[r] = None /\ op[r].name = "register"
       IN  /\ devices_file' = fin.file
           /\ result' = [result EXCEPT ![r] = fin.out]
           /\ device' = [device EXCEPT ![r] = IF created THEN fin.device ELSE @]
           /\ saves' = [saves EXCEPT ![r] = @ + fin.saved]
           /\ loads' = [loads EXCEPT ![r] = @ + fin.loaded]
           /\ locked' = [locked EXCEPT ![r] = IF fin.loaded > 0
                                              THEN async_with_lock(@) ELSE @]
           /\ uuids' = IF created THEN uuids + 1 ELSE uuids
           /\ now' = IF exc[r] = None THEN t2 ELSE now
           /\ committed' =
                 CASE exc[r] # None -> committed
                   [] created ->
                         put(committed, uuids + 1,
                             [id |-> fin.device[1].id,
                              data |-> Some(get_all_data(got[r]))])
                   [] OTHER ->
                         [n \in DOMAIN committed |->
                             IF committed[n].id = op[r].id
                             THEN [committed[n] EXCEPT
                                      !.data = Some(get_all_data(got[r]))]
                             ELSE committed[n]]
           /\ raced' = [raced EXCEPT ![r] = Racing(r)]
    /\ pc' = [pc EXCEPT ![r] = "done"]
    /\ client' = [client EXCEPT ![r] = aexit(@, exc[r])]
    /\ UNCHANGED <<op, got, exc, log, submitted, vParts, vIn, vOut>>

\* The response is sent; the slot is free for the next request.
Finish(r) ==
    /\ pc[r] = "done"
    /\ pc' = [pc EXCEPT ![r] = "idle"]
    /\ op' = [op EXCEPT ![r] = NoOp]
    /\ device' = [device EXCEPT ![r] = None]
    /\ got' = [got EXCEPT ![r] = <<>>]
    /\ exc' = [exc EXCEPT ![r] = None]
    /\ client' = [client EXCEPT ![r] = "none"]
    /\ result' = [result EXCEPT ![r] = NoResult]
    /\ log' = [log EXCEPT ![r] = <<>>]
    /\ saves' = [saves EXCEPT ![r] = 0]
    /\ loads' = [loads EXCEPT ![r] = 0]
    /\ locked' = [locked EXCEPT ![r] = FALSE]
    /\ raced' = [raced EXCEPT ![r] = FALSE]
    /\ UNCHANGED <<devices_file, uuids, now, committed, submitted, vParts, vIn, vOut>>

Register == \E r \in Reqs, ip \in IpAddresses, u \in DefaultOnly, p \in Passwords,
               port \in Ports : SubmitRegister(r, ip, u, p, port)
Refresh == \E r \in Reqs, id \in DeviceIds, u \in RefreshUsernames, p \in Passwords :
               SubmitRefresh(r, id, u, p)
Get == \E r \in Reqs, id \in DeviceIds : SubmitGet(r, id)
ListAll == \E r \in Reqs : SubmitList(r)
Delete == \E r \in Reqs, id \in DeviceIds : SubmitDelete(r, id)
Answer == \E r \in Reqs : \E out \in PlainOutcomes(Len(got[r]) + 1) : Reply(r, out)
Close == \E r \in Reqs, d1 \in 0..1, d2 \in 0..1 : Closed(r, d1, d2)
Respond == \E r \in Reqs : Finish(r)

Next == Register \/ Refresh \/ Get \/ ListAll \/ Delete \/ Answer \/ Close \/ Respond

\* Concurrent requests against devices that answer plainly or fail.
Spec == Init /\ [][Next]_vars

\* What a step Closed(r, d1, d2) does to pc.  Under Next only Closed takes r
\* from "closing" to "done", and Closed(r, 0, 0) can be taken whenever
\* pc[r] = "closing", so fairness of this step is fairness of Closed.
CloseStep(r) == pc[r] = "closing" /\ pc' = [pc EXCEPT ![r] = "done"]

\* aclose() completes at a moment when the clock has not ticked.
CloseLive == \E r \in Reqs : Closed(r, 0, 0)

\* The calls that fetch, and the delete that can race with them.
NextLive == Register \/ Refresh \/ Delete \/ Answer \/ CloseLive \/ Respond

\* Concurrent registrations, refreshes and deletes where every GET awaited
\* is eventually answered (by a response, an error or the client's timeout)
\* and every aclose() completes.
SpecLive ==
    /\ Init /\ [][NextLive]_vars
    /\ \A r \in Reqs :
          /\ WF_vars(\E out \in PlainOutcomes(Len(got[r]) + 1) : Reply(r, out))
          /\ WF_pc(CloseStep(r))

\* One registration at a time into an empty registry, against a device that
\* may answer anything.
RegisterSolo == \E ip \in IpAddresses, u \in Usernames, p \in Passwords, port \in Ports :
                    uuids = 0 /\ SubmitRegister("r1", ip, u, p, port)
GetSolo == \E id \in DeviceIds : SubmitGet("r1", id)
AnswerSolo == \E out \in SoloOutcomes(Len(got["r1"]) + 1) : Reply("r1", out)
CloseSolo == \E d1 \in 0..1, d2 \in 0..1 : Closed("r1", d1, d2)
RespondSolo == Finish("r1")

NextSolo == RegisterSolo \/ GetSolo \/ AnswerSolo \/ CloseSolo \/ RespondSolo

SpecSolo == Init /\ [][NextSolo]_vars

(***************************************************************************)
(* The IP validator on its own                                             *)
(***************************************************************************)
\* Parts that are decimal octets in 0..255, and parts that are not: empty,
\* out of range, not a number, a digit that is no decimal digit.
ValidOctets == {<<"0">>, <<"2", "5", "5">>, <<"0", "7">>}
InvalidParts == {<<>>, <<"2", "5", "6">>, <<"1", "a">>, <<"sup2">>}
PartSamples == ValidOctets \cup InvalidParts

RECURSIVE join(_, _)
\* sep.join(parts)
join(parts, sep) ==
    IF Len(parts) = 0 THEN <<>>
    ELSE IF Len(parts) = 1 THEN parts[1]
    ELSE parts[1] \o <<sep>> \o join(Tail(parts), sep)

InitIp ==
    /\ InitRegistry
    /\ vParts \in UNION {[1..n -> PartSamples] : n \in 1..MaxParts}
    /\ vIn = join(vParts, ".")
    /\ vOut = "pending"

\* DeviceCreate's field validator is run on the input.
Validate ==
    /\ vOut = "pending"
    /\ vOut' = IF validate_ip_address(vIn) THEN "accepted" ELSE "ValidationError"
    /\ UNCHANGED <<devices_file, uuids, now, pc, op, device, got, exc, client,
                   result, log, saves, loads, locked, committed, raced, submitted,
                   vParts, vIn>>

NextIp == Validate

SpecIp == InitIp /\ [][NextIp]_vars

(***************************************************************************)
(* Properties                                                              *)
(***************************************************************************)
Store == load_devices(devices_file)

\* The answer to one of the two required GETs of request r was a failure.
RequiredFailed(r) == \E i \in 1..Len(log[r]) : i <= 2 /\ log[r][i][2] # "ok"

\* C1: a registration in which system/resource or interface fails raises,
\* leaves its `device` unset and never writes the registry file: neither
\* before it ends (no _save_devices call is made for it) nor in the step that
\* ends it, so the registry holds what it held without the attempt.
C1_RollbackInvariant ==
    /\ [](\A r \in Reqs :
             (pc[r] = "done" /\ op[r].name = "register" /\ RequiredFailed(r))
                 => /\ result[r].raised \notin {"", "pending"}
                    /\ saves[r] = 0
                    /\ device[r] = None)
    /\ [][\A r \in Reqs :
             (op[r].name = "register" /\ RequiredFailed(r) /\ pc'[r] # pc[r])
                 => devices_file' = devices_file]_vars

\* C1 witness: a registration has failed on an unreachable host while the
\* registry holds a record.
C1_Witness ==
    \E r \in Reqs :
        /\ pc[r] = "done" /\ op[r].name = "register"
        /\ log[r] = <<<<"system/resource", "transport", Scalar>>>>
        /\ result[r].raised = "ConnectionError"
        /\ DOMAIN Store # {}

\* The parts of a validator input that the claim calls well formed.
WellFormed(parts) == Len(parts) = 4 /\ \A i \in 1..Len(parts) : parts[i] \in ValidOctets

\* C10: the validator accepts exactly the inputs made of four dot-separated
\* decimal octets in 0..255, and raises on every other input.
C10_IpValidation ==
    vOut # "pending" => (vOut = "accepted" <=> WellFormed(vParts))

\* C10 witness: four parts, three of them octets and one of them 256, refused.
C10_Witness ==
    /\ vOut = "ValidationError"
    /\ Len(vParts) = 4
    /\ \E i \in 1..4 : /\ vParts[i] = <<"2", "5", "6">>
                       /\ \A j \in (1..4) \ {i} : vParts[j] \in ValidOctets

\* C2: a registration whose two required GETs are answered with data
\* succeeds whatever the four optional GETs do, and its snapshot has an empty
\* mapping at every optional key that failed and non-empty system and
\* interfaces.
C2_PartialFailure ==
    \A r \in Reqs :
        (/\ pc[r] = "done" /\ op[r].name = "register"
         /\ Len(log[r]) >= 2
         /\ \A i \in 1..2 : log[r][i][2] = "ok" /\ bool(log[r][i][3]))
            => /\ result[r].raised = ""
               /\ LET snapshot == result[r].value[1].data[1]
                  IN  /\ bool(snapshot.system)
                      /\ bool(snapshot.interfaces)
                      /\ \A k \in 3..6 :
                            log[r][k][2] # "ok" => snapshot[Keys[k]] = EmptyDict

\* The answer to a required GET of r was a non-2xx status or no answer.
StrictFailure(r) ==
    \E i \in 1..Len(log[r]) : i <= 2 /\ log[r][i][2] \in {"http_status", "transport"}

\* C3: once system/resource or interface has failed by status or transport,
\* get_all_data has raised ConnectionError: no further GET is made, no
\* snapshot is returned and the call ends with that ConnectionError.
C3_StrictRequired ==
    \A r \in Reqs :
        StrictFailure(r)
            => /\ pc[r] \in {"closing", "done"}
               /\ exc[r] = Some("ConnectionError")
               /\ log[r][Len(log[r])][2] # "ok"
               /\ Len(got[r]) = Len(log[r]) - 1
               /\ pc[r] = "done" => result[r] = Raise("ConnectionError")

\* C3 witness: system/resource answered, interface answered 4xx/5xx, and the
\* call ended with ConnectionError.
C3_Witness ==
    \E r \in Reqs :
        /\ pc[r] = "done"
        /\ Len(log[r]) = 2 /\ log[r][1][2] = "ok" /\ log[r][2][2] = "http_status"
        /\ result[r] = Raise("ConnectionError")

\* C4: a refresh of an existing record whose get_all_data raises ends by
\* raising that exception, makes no _save_devices call, and the step that
\* ends it leaves the registry file as it was.
C4_RefreshFailureKeepsState ==
    /\ [](\A r \in Reqs :
             (pc[r] = "done" /\ op[r].name = "refresh" /\ exc[r] # None)
                 => /\ result[r] = Raise(exc[r][1])
                    /\ saves[r] = 0)
    /\ [][\A r \in Reqs :
             (op[r].name = "refresh" /\ exc[r] # None /\ pc'[r] # pc[r])
                 => devices_file' = devices_file]_vars

\* C4 witness: a refresh has failed and its record is still stored with the
\* snapshot of its registration.
C4_Witness ==
    \E r \in Reqs :
        /\ pc[r] = "done" /\ op[r].name = "refresh" /\ exc[r] # None
        /\ op[r].id \in DOMAIN Store
        /\ Store[op[r].id].data # None
        /\ Some(dict_to_device(Store[op[r].id])) = device[r]

\* C5: the records stored are as many as the creates made and not deleted,
\* their ids are pairwise distinct, and they are the ids stored.
C5_ConcurrentCreates ==
    /\ Cardinality(DOMAIN Store) = Cardinality(DOMAIN committed)
    /\ \A m, n \in DOMAIN committed : m # n => committed[m].id # committed[n].id
    /\ DOMAIN Store = {committed[n].id : n \in DOMAIN committed}

\* C5 witness: two registrations were in flight together, both have created
\* their record and the registry lists two.
C5_Witness ==
    \E r, q \in Reqs :
        /\ r # q /\ raced[r]
        /\ \A x \in {r, q} : /\ pc[x] = "done" /\ op[x].name = "register"
                             /\ result[x].raised = ""
        /\ Cardinality(DOMAIN Store) = 2

\* C6: every mutation committed is in the file: each record created and not
\* deleted is stored, with the data of the last update_data made on its id.
C6_NoLostUpdates ==
    /\ \A n \in DOMAIN committed :
          /\ committed[n].id \in DOMAIN Store
          /\ Store[committed[n].id].data = committed[n].data
    /\ \A id \in DOMAIN Store : \E n \in DOMAIN committed : committed[n].id = id

\* C6 witness: two calls were in flight together, each has made update_data
\* on its own id with a different snapshot, and both snapshots are stored.
C6_Witness ==
    \E r, q \in Reqs :
        /\ r # q /\ raced[r]
        /\ \A x \in {r, q} : /\ pc[x] = "done" /\ op[x].name \in {"register", "refresh"}
                             /\ result[x].raised = "" /\ saves[x] > 0
        /\ LET a == result[r].value[1]
               b == result[q].value[1]
           IN  /\ a.id # b.id /\ a.data # b.data
               /\ {a.id, b.id} \subseteq DOMAIN Store
               /\ Store[a.id].data = a.data
               /\ Store[b.id].data = b.data

\* C7: after create, update_data and get_by_id in a registration, the record
\* read back holds the snapshot, the address, user name and port given, the
\* created_at that create returned, and a last_accessed not before it.
C7_RoundTrip ==
    \A r \in Reqs :
        (pc[r] = "done" /\ op[r].name = "register" /\ result[r].raised = "")
            => LET made == device[r][1]
                   read == get_by_id(devices_file, made.id).ret
               IN  /\ read # None
                   /\ read[1].data = Some(get_all_data(got[r]))
                   /\ read[1].ip_address = op[r].ip_address
                   /\ read[1].username = or_else(op[r].username, DefaultUsername)
                   /\ read[1].port = op[r].port
                   /\ read[1].created_at = made.created_at
                   /\ read[1].last_accessed # None
                   /\ read[1].last_accessed[1] >= read[1].created_at
                   /\ result[r].value = Some(DeviceResponse(read[1]))

\* C7 witness: a registration with an explicit user name has returned a
\* record last accessed after it was created.
C7_Witness ==
    \E r \in Reqs :
        /\ pc[r] = "done" /\ op[r].name = "register" /\ result[r].raised = ""
        /\ op[r].username = "ops"
        /\ Store[device[r][1].id].username = "ops"
        /\ result[r].value[1].last_accessed[1] > result[r].value[1].created_at

\* C8: delete returns True and removes exactly the record of its id when the
\* id is stored; otherwise it returns False and leaves the file as it was.
C8_DeleteSemantics ==
    [][\A r \in Reqs :
          (pc[r] = "idle" /\ op'[r].name = "delete")
              => IF op'[r].id \in DOMAIN Store
                 THEN /\ result'[r] = Return(TRUE)
                      /\ Store' = remove(Store, op'[r].id)
                 ELSE /\ result'[r] = Return(FALSE)
                      /\ devices_file' = devices_file]_vars

\* C8 witness: a second delete of an id created and deleted before has
\* returned False.
C8_Witness ==
    \E r \in Reqs :
        /\ pc[r] = "done" /\ op[r].name = "delete"
        /\ result[r] = Return(FALSE)
        /\ uuids >= 1 /\ op[r].id = uuid4(1)

\* C9: a refresh of an id that is not stored ends at once with None: no
\* session is opened, no GET is made and the file is left as it was.
C9_RefreshUnknown ==
    [][\A r \in Reqs :
          (pc[r] = "idle" /\ op'[r].name = "refresh" /\ op'[r].id \notin DOMAIN Store)
              => /\ pc'[r] = "done"
                 /\ result'[r] = Return(None)
                 /\ client'[r] = "none"
                 /\ log'[r] = <<>>
                 /\ devices_file' = devices_file]_vars

\* C9 witness: a refresh of an unknown id has returned None without a
\* session while another record is stored.
C9_Witness ==
    \E r \in Reqs :
        /\ pc[r] = "done" /\ op[r].name = "refresh"
        /\ result[r] = Return(None)
        /\ client[r] = "none" /\ log[r] = <<>>
        /\ op[r].id \notin DOMAIN Store
        /\ DOMAIN Store # {}

\* C11: a registration whose IP address is malformed or whose port is outside
\* 1..65535 ends at once with a validation error: no session is opened, no
\* GET is made, the registry is neither read nor written, and the file is
\* left as it was.
C11_ValidationFirst ==
    [][\A r \in Reqs :
          (/\ pc[r] = "idle" /\ op'[r].name = "register"
           /\ \/ op'[r].ip_address = Ip999_1_1_1
              \/ op'[r].port < 1
              \/ op'[r].port > 65535)
              => /\ pc'[r] = "done"
                 /\ result'[r] = Raise("ValidationError")
                 /\ client'[r] = "none"
                 /\ log'[r] = <<>>
                 /\ loads'[r] = 0 /\ saves'[r] = 0
                 /\ devices_file' = devices_file]_vars

\* C11 witness: with a record stored, one registration was rejected for its
\* port and another for its IP address, neither having touched the registry.
C11_Witness ==
    /\ DOMAIN Store # {}
    /\ \A r \in Reqs :
          /\ pc[r] = "done" /\ op[r].name = "register"
          /\ result[r] = Raise("ValidationError")
          /\ client[r] = "none" /\ log[r] = <<>>
          /\ loads[r] = 0 /\ saves[r] = 0
    /\ op["r1"].ip_address = Ip10_0_0_5 /\ op["r1"].port = 0
    /\ op["r2"].ip_address = Ip999_1_1_1 /\ op["r2"].port = 80

\* C12: a call holds a session of its own exactly while it fetches: the
\* session is open from the entry of `async with` until the block is left,
\* it is closed once and the call ends, by a result or by an exception, with
\* no session open; a call that opened none ends with none.
C12_ScopedSession ==
    /\ [](\A r \in Reqs :
             /\ pc[r] = "idle" => client[r] = "none"
             /\ InFlight(r) => client[r] = "open"
             /\ pc[r] = "done" =>
                   client[r] = IF log[r] # <<>> THEN "closed" ELSE "none")
    /\ [][\A r \in Reqs :
             client'[r] # client[r] =>
                 \/ client[r] = "none" /\ client'[r] = "open" /\ pc'[r] = "fetch"
                 \/ client[r] = "open" /\ client'[r] = "closed" /\ pc'[r] = "done"
                 \/ client[r] = "closed" /\ client'[r] = "none" /\ pc'[r] = "idle"]_vars

\* C12 witness: a registration that raised and a refresh that returned a
\* record have both ended with their session closed.
C12_Witness ==
    \E r, q \in Reqs :
        /\ pc[r] = "done" /\ op[r].name = "register"
        /\ exc[r] # None /\ result[r].raised # ""
        /\ client[r] = "closed"
        /\ pc[q] = "done" /\ op[q].name = "refresh"
        /\ exc[q] = None /\ result[q].raised = "" /\ result[q].value # None
        /\ client[q] = "closed"

\* C13: every record in the file has exactly the fields id, ip_address,
\* username, port, created_at, last_accessed and data, and none of its
\* text fields holds a password that a call was given.
C13_PasswordConfined ==
    \A id \in DOMAIN Store :
        /\ DOMAIN Store[id] = {"id", "ip_address", "username", "port",
                               "created_at", "last_accessed", "data"}
        /\ \A p \in Passwords : Store[id].id # p /\ Store[id].username # p

\* C13 witness: a registration and a refresh, both given the password, have
\* written the record that is stored.
C13_Witness ==
    \E r, q \in Reqs :
        /\ pc[r] = "done" /\ op[r].name = "register" /\ op[r].password \in Passwords
        /\ result[r].raised = "" /\ saves[r] = 2
        /\ pc[q] = "done" /\ op[q].name = "refresh" /\ op[q].password \in Passwords
        /\ result[q].raised = "" /\ saves[q] = 1
        /\ op[q].id = device[r][1].id
        /\ op[q].id \in DOMAIN Store

\* C14: whenever no registration is in progress, every record in the file
\* has data.
C14_NoDatalessDevice ==
    (\A r \in Reqs : ~(op[r].name = "register" /\ InFlight(r)))
        => \A id \in DOMAIN Store : Store[id].data # None

\* C14 witness: no registration is in progress, one has failed on a required
\* endpoint and two have succeeded, and both records stored have data.
C14_Witness ==
    /\ \A r \in Reqs : ~(op[r].name = "register" /\ InFlight(r))
    /\ \E r \in Reqs : /\ pc[r] = "done" /\ op[r].name = "register"
                       /\ RequiredFailed(r)
    /\ Cardinality(DOMAIN Store) = 2
    /\ \A id \in DOMAIN Store : Store[id].data # None

\* C15: a record that stays in the file keeps its id, ip_address, username,
\* port and created_at in every step; its data and last_accessed change only
\* in the step in which a refresh of that id calls update_data.
C15_FieldsImmutable ==
    [][\A id \in DOMAIN Store \cap DOMAIN Store' :
          /\ Store'[id].id = Store[id].id
          /\ Store'[id].ip_address = Store[id].ip_address
          /\ Store'[id].username = Store[id].username
          /\ Store'[id].port = Store[id].port
          /\ Store'[id].created_at = Store[id].created_at
          /\ (\/ Store'[id].data # Store[id].data
              \/ Store'[id].last_accessed # Store[id].last_accessed)
                 => \E r \in Reqs :
                        /\ pc[r] = "closing" /\ pc'[r] = "done"
                        /\ op[r].name = "refresh" /\ op[r].id = id
                        /\ exc[r] = None
                        /\ saves'[r] = saves[r] + 1]_vars

\* C15 witness: a refresh under another username has stamped a record later
\* than it was created, and the record still has the username it was
\* created with.
C15_Witness ==
    \E r \in Reqs :
        /\ pc[r] = "done" /\ op[r].name = "refresh" /\ op[r].username = "ops"
        /\ result[r].raised = "" /\ result[r].value # None
        /\ op[r].id \in DOMAIN Store
        /\ Store[op[r].id].username = DefaultUsername
        /\ Store[op[r].id].created_at = isoformat(0)
        /\ Store[op[r].id].last_accessed = isoformat(1)

C17_NothingPersistedEarly ==
    \A r \in Reqs :
        op[r].name \in {"register", "refresh"} =>
            /\ InFlight(r) => saves[r] = 0
            /\ saves[r] > 0 => /\ pc[r] = "done" /\ exc[r] = None
                               /\ Len(got[r]) = Len(Keys)

\* C17 witness: a refresh has written its snapshot after its sixth GET while
\* a registration whose six GETs are answered has not written yet.
C17_Witness ==
    \E r, q \in Reqs :
        /\ pc[r] = "done" /\ op[r].name = "refresh"
        /\ saves[r] = 1 /\ Len(got[r]) = 6
        /\ pc[q] = "closing" /\ op[q].name = "register"
        /\ exc[q] = None /\ Len(got[q]) = 6 /\ saves[q] = 0

\* The endpoints call r has requested so far, in order: those answered and
\* the one whose GET is awaited.
Requested(r) ==
    [i \in 1..Len(log[r]) |-> log[r][i][1]]
        \o (IF pc[r] = "fetch" THEN <<Endpoints[Len(got[r]) + 1]>> ELSE <<>>)

\* C18: the endpoints of a call are requested in the order system/resource,
\* interface, system/identity, system/routerboard, system/clock,
\* system/license; interface is requested only after system/resource was
\* answered successfully, and an optional endpoint only after both were.
C18_FixedOrderFailFast ==
    \A r \in Reqs :
        LET q == Requested(r)
            order == <<"system/resource", "interface", "system/identity",
                       "system/routerboard", "system/clock", "system/license">>
        IN  /\ Len(q) <= 6
            /\ \A i \in 1..Len(q) : q[i] = order[i]
            /\ Len(q) >= 2 => log[r][1][2] = "ok"
            /\ Len(q) >= 3 => log[r][2][2] = "ok"

\* C18 witness: all six endpoints were requested, two optional ones having
\* failed on the way, and a required one was answered with an odd body.
C18_Witness ==
    /\ pc["r1"] = "done" /\ Len(Requested("r1")) = 6
    /\ log["r1"][1][3] = SomeDict
    /\ log["r1"][3][2] = "http_status"
    /\ log["r1"][6][2] = "unexpected"

\* C19: a registration or refresh requests no endpoint twice; when it has
\* returned after fetching, it has requested each of the six exactly once;
\* when a GET has made it fail, that GET was its last and nothing is
\* awaited any more.
C19_NoRetries ==
    \A r \in Reqs :
        LET q == Requested(r)
        IN  /\ \A i, j \in 1..Len(q) : i # j => q[i] # q[j]
            /\ (/\ pc[r] = "done" /\ op[r].name \in {"register", "refresh"}
                /\ client[r] = "closed" /\ result[r].raised = "")
                   => /\ Len(q) = 6
                      /\ {q[i] : i \in 1..6} = {Endpoints[i] : i \in 1..6}
            /\ exc[r] # None
                   => /\ pc[r] \in {"closing", "done"}
                      /\ Len(q) = Len(log[r])
                      /\ log[r][Len(log[r])][2] # "ok"

\* C19 witness: a registration has returned after six requests, the last of
\* which failed, and a refresh has raised after its second request failed.
C19_Witness ==
    \E r, q \in Reqs :
        /\ pc[r] = "done" /\ op[r].name = "register"
        /\ result[r].raised = "" /\ Len(Requested(r)) = 6
        /\ log[r][6][2] = "http_status"
        /\ pc[q] = "done" /\ op[q].name = "refresh"
        /\ result[q].raised # "" /\ Len(Requested(q)) = 2
        /\ log[q][2][2] = "http_status"

\* What the one normalization rule allows for a body: the first element of a
\* non-empty array if it is a mapping, else the element (or the array as it
\* came); a mapping as it is; an empty mapping for anything else.
Normalized(body) ==
    IF islist(body) /\ len(body) > 0
    THEN IF isdict(body.v[1]) THEN {body.v[1]} ELSE {body.v[1], body}
    ELSE IF isdict(body) THEN {body} ELSE {EmptyDict}

\* C20: whichever of the six endpoints a successful response came from, the
\* value kept for it is the body normalized by the one rule, so equal bodies
\* give equal values on all endpoints.
C20_UniformNormalization ==
    \A r \in Reqs :
        \A i \in 1..Len(got[r]) :
            log[r][i][2] = "ok" => got[r][i] \in Normalized(log[r][i][3])

\* C21: when get_all_data has returned, its result has exactly the keys
\* system, interfaces, identity, routerboard, clock and license; the key of
\* an optional endpoint whose GET failed holds an empty mapping; and neither
\* required GET has failed.
C21_SnapshotShape ==
    \A r \in Reqs :
        (pc[r] \in {"closing", "done"} /\ exc[r] = None /\ Len(got[r]) = 6)
            => LET snapshot == get_all_data(got[r])
               IN  /\ DOMAIN snapshot = {"system", "interfaces", "identity",
                                         "routerboard", "clock", "license"}
                   /\ log[r][1][2] = "ok" /\ log[r][2][2] = "ok"
                   /\ log[r][3][2] # "ok" => snapshot.identity = EmptyDict
                   /\ log[r][4][2] # "ok" => snapshot.routerboard = EmptyDict
                   /\ log[r][5][2] # "ok" => snapshot.clock = EmptyDict
                   /\ log[r][6][2] # "ok" => snapshot.license = EmptyDict

\* C21 witness: a snapshot was returned and stored in which two optional
\* endpoints failed and the required ones are filled.
C21_Witness ==
    /\ pc["r1"] = "done" /\ exc["r1"] = None /\ Len(got["r1"]) = 6
    /\ log["r1"][3][2] = "transport" /\ log["r1"][5][2] = "transport"
    /\ get_all_data(got["r1"]).system = SomeDict
    /\ get_all_data(got["r1"]).interfaces = List(<<SomeDict>>)
    /\ get_all_data(got["r1"]).identity = EmptyDict
    /\ \E id \in DOMAIN Store : Store[id].data = Some(get_all_data(got["r1"]))

\* C22: every record that a get or a list has returned has data: no call
\* is handed the record of a registration that has not committed its
\* snapshot.
C22_NoMidStepObservation ==
    \A r \in Reqs :
        pc[r] = "done" =>
            /\ (op[r].name = "get" /\ result[r].value # None)
                   => result[r].value[1].data # None
            /\ op[r].name = "list"
                   => \A d \in result[r].value : d.data # None

\* C22 witness: while a registration waits for its device, a list of
\* another request has returned the one record committed before, with data.
C22_Witness ==
    \E r, q \in Reqs :
        /\ pc[q] = "fetch" /\ op[q].name = "register" /\ Len(log[q]) >= 1
        /\ pc[r] = "done" /\ op[r].name = "list"
        /\ Cardinality(result[r].value) = 1
        /\ \A d \in result[r].value : d.data # None /\ d.id \in DOMAIN Store

C24_NoResurrection ==
    [][\A r \in Reqs :
          (/\ pc[r] = "closing" /\ pc'[r] = "done"
           /\ op[r].name = "refresh" /\ exc[r] = None
           /\ op[r].id \notin DOMAIN Store)
              => /\ result'[r] = Return(None)
                 /\ saves'[r] = saves[r]
                 /\ devices_file' = devices_file
                 /\ op[r].id \notin DOMAIN Store']_vars

\* C24 witness: a refresh found its record, fetched all six endpoints and
\* returned None without a write, the record having been deleted by another
\* request in the meantime.
C24_Witness ==
    \E r, q \in Reqs :
        /\ pc[r] = "done" /\ op[r].name = "refresh"
        /\ device[r] # None /\ Len(log[r]) = 6 /\ exc[r] = None
        /\ result[r] = Return(None) /\ saves[r] = 0 /\ loads[r] = 3
        /\ pc[q] = "done" /\ op[q].name = "delete" /\ op[q].id = op[r].id
        /\ result[q] = Return(TRUE)
        /\ op[r].id \notin DOMAIN Store

\* C25: a record has no data exactly when it has no last_accessed: in the
\* file, as create returned it (neither), as a refresh read it and as a
\* call returned it.
C25_DataIffLastAccessed ==
    /\ \A id \in DOMAIN Store :
          (Store[id].data = None) <=> (Store[id].last_accessed = None)
    /\ \A r \in Reqs :
          /\ device[r] # None
                 => (device[r][1].data = None) <=> (device[r][1].last_accessed = None)
          /\ (op[r].name = "register" /\ device[r] # None)
                 => device[r][1].data = None /\ device[r][1].last_accessed = None
          /\ (/\ pc[r] = "done" /\ op[r].name \in {"register", "refresh", "get"}
              /\ result[r].raised = "" /\ result[r].value # None)
                 => /\ result[r].value[1].data # None
                    /\ result[r].value[1].last_accessed # None

\* C25 witness: the record a registration created had neither data nor
\* last_accessed; the file has it with both, stamped again by a refresh.
C25_Witness ==
    \E r, q \in Reqs :
        /\ pc[r] = "done" /\ op[r].name = "register" /\ device[r] # None
        /\ device[r][1].data = None /\ device[r][1].last_accessed = None
        /\ device[r][1].id \in DOMAIN Store
        /\ Store[device[r][1].id].data # None
        /\ Store[device[r][1].id].last_accessed = isoformat(1)
        /\ pc[q] = "done" /\ op[q].name = "refresh" /\ op[q].id = device[r][1].id
        /\ saves[q] = 1

\* C26: a registration or refresh that waits for its device or for its
\* session to close eventually ends; and a call that has ended has returned
\* or raised, has no session open and does not hold the lock of its
\* repository.
C26_Termination ==
    /\ \A r \in Reqs : InFlight(r) ~> (pc[r] = "done")
    /\ [](\A r \in Reqs :
             (pc[r] = "done" /\ op[r].name \in {"register", "refresh"})
                 => /\ result[r].raised # "pending"
                    /\ client[r] # "open"
                    /\ ~locked[r])

\* C26 witness: a registration that fetched all six endpoints has returned
\* its record and a refresh has raised, both with their session closed and
\* their lock free.
C26_Witness ==
    \E r, q \in Reqs :
        /\ pc[r] = "done" /\ op[r].name = "register" /\ Len(log[r]) = 6
        /\ result[r].raised = "" /\ result[r].value # None
        /\ client[r] = "closed" /\ ~locked[r]
        /\ pc[q] = "done" /\ op[q].name = "refresh" /\ Len(log[q]) = 1
        /\ result[q].raised = "ConnectionError"
        /\ client[q] = "closed" /\ ~locked[q]

====
